---- MODULE Spec2Model ----
(***************************************************************************)
(* Model of src/src/geometry.rs: Ray::plane_intersection against a Plane,  *)
(* and the Cuboid operations corner_points, containing_cube (with its      *)
(* outermost_points scan) and rearrange.                                   *)
(*                                                                         *)
(* Numbers.  Cuboid coordinates are f32 values on the integer grid, where  *)
(* f32 addition, subtraction and comparison are exact; they are modelled   *)
(* as integers.  plane_intersection divides, so ray and plane coordinates  *)
(* are exact rationals <<numerator, denominator>> in lowest terms with a   *)
(* positive denominator; f32 rounding is not modelled.                     *)
(***************************************************************************)
EXTENDS Integers, Sequences, FiniteSets, TLC

VARIABLES
    cuboid,     \* the Cuboid that rearrange mutates in place
    hist,       \* <<cuboid as constructed, cuboid after call 1, after call 2, ...>>
    points,     \* value returned by cuboid.corner_points()
    self,       \* receiver of containing_cube
    other,      \* argument of containing_cube
    contained,  \* value returned by self.containing_cube(&other)
    ray,        \* the Ray
    plane,      \* the Plane it is intersected with
    hit         \* value returned by ray.plane_intersection(&plane)

vars == <<cuboid, hist, points, self, other, contained, ray, plane, hit>>

\* A variable that holds the value returned by a call is <<>> before the
\* call and <<value>> after it.
NotCalled == <<>>
Returned(v) == <<v>>

\* Option<T>
None == <<"None">>
Some(v) == <<"Some", v>>

Abs(n) == IF n < 0 THEN -n ELSE n
Min(m, n) == IF m <= n THEN m ELSE n

(***************************************************************************)
(* Bounds of the explored inputs.                                          *)
(***************************************************************************)
MaxCorner == 1      \* rearrange: corner components in -MaxCorner..MaxCorner
MaxExtent == 1      \* rearrange: extent components in -MaxExtent..MaxExtent
MaxCalls == 2       \* rearrange is called at most this many times on a cuboid
MaxCornerSum == 1   \* containing_cube: receiver's corner components >= 0, sum <= MaxCornerSum
MaxExtentSum == 2   \* containing_cube: |ex| + |ey| + |ez| <= MaxExtentSum

(***************************************************************************)
(* Vector3<f32> on the integer grid.                                       *)
(***************************************************************************)
Vector3(x, y, z) == [x |-> x, y |-> y, z |-> z]
VAdd(u, v) == Vector3(u.x + v.x, u.y + v.y, u.z + v.z)
VSub(u, v) == Vector3(u.x - v.x, u.y - v.y, u.z - v.z)
unit_x == Vector3(1, 0, 0)

WHITE == <<1, 1, 1, 1>>
RED == <<1, 0, 0, 1>>
Colors == {WHITE, RED}

\* struct Cuboid and Cuboid::new
Cuboid_new(corner, extent, color) ==
    [corner |-> corner, extent |-> extent, color |-> color]

\* corner_points with the third and fourth corners exchanged
corner_points_swapped(c) ==
    << c.corner,
       VAdd(c.corner, Vector3(c.extent.x, 0, 0)),
       VAdd(c.corner, Vector3(0, c.extent.y, 0)),
       VAdd(c.corner, Vector3(c.extent.x, c.extent.y, 0)),
       VAdd(c.corner, Vector3(0, 0, c.extent.z)),
       VAdd(c.corner, Vector3(c.extent.x, 0, c.extent.z)),
       VAdd(c.corner, Vector3(c.extent.x, c.extent.y, c.extent.z)),
       VAdd(c.corner, Vector3(0, c.extent.y, c.extent.z)) >>

\* Cuboid::corner_points
corner_points(c) ==
    << c.corner,
       VAdd(c.corner, Vector3(c.extent.x, 0, 0)),
       VAdd(c.corner, Vector3(c.extent.x, c.extent.y, 0)),
       VAdd(c.corner, Vector3(0, c.extent.y, 0)),
       VAdd(c.corner, Vector3(0, 0, c.extent.z)),
       VAdd(c.corner, Vector3(c.extent.x, 0, c.extent.z)),
       VAdd(c.corner, Vector3(c.extent.x, c.extent.y, c.extent.z)),
       VAdd(c.corner, Vector3(0, c.extent.y, c.extent.z)) >>

\* manhattan_distance without .abs() on the x difference
manhattan_distance_signed_x(start, end) ==
    (start.x - end.x) + Abs(start.y - end.y) + Abs(start.z - end.z)

\* Cuboid::manhattan_distance
manhattan_distance(start, end) ==
    Abs(start.x - end.x) + Abs(start.y - end.y) + Abs(start.z - end.z)

\* from_corner_points with extent = point2 instead of point2 - point1
from_corner_points_no_sub(point1, point2, color) ==
    [corner |-> point1, extent |-> point2, color |-> color]

\* Cuboid::from_corner_points
from_corner_points(point1, point2, color) ==
    [corner |-> point1, extent |-> VSub(point2, point1), color |-> color]

\* Values of the locals (outermost_points, distance) of outermost_points.
ScanLocals == ([x : Int, y : Int, z : Int] \X [x : Int, y : Int, z : Int]) \X Int

\* Cuboid::outermost_points.  outer[i, acc] runs the outer loop from the
\* receiver's corner i on, inner[i, j, acc] the inner loop for that corner
\* from the argument's corner j on; acc is <<outermost_points, distance>>.
outermost_points(c, o) ==
    LET xs == corner_points(c)
        ys == corner_points(o)
        inner[i \in 1..Len(xs), j \in 1..(Len(ys) + 1), acc \in ScanLocals] ==
            IF j > Len(ys) THEN acc
            ELSE LET manhattan_dist == manhattan_distance(xs[i], ys[j])
                 IN  inner[i, j + 1, IF manhattan_dist > acc[2]
                                     THEN <<<<xs[i], ys[j]>>, manhattan_dist>>
                                     ELSE acc]
        outer[i \in 1..(Len(xs) + 1), acc \in ScanLocals] ==
            IF i > Len(xs) THEN acc
            ELSE outer[i + 1, inner[i, 1, acc]]
    IN  outer[1, <<<<unit_x, unit_x>>, 0>>][1]

\* Cuboid::containing_cube
containing_cube(c, o) ==
    LET pts == outermost_points(c, o)
    IN  from_corner_points(pts[1], pts[2], c.color)

\* the loop of rearrange with < and > in place of <= and >=
RECURSIVE rearrange_scan_strict(_, _, _)
rearrange_scan_strict(pts, i, acc) ==
    IF i > Len(pts) THEN acc
    ELSE LET point == pts[i]
             closest_to_origo ==
                 IF /\ point.x < acc[1].x
                    /\ point.y < acc[1].y
                    /\ point.z < acc[1].z
                 THEN point ELSE acc[1]
             farthest_from_origo ==
                 IF /\ point.x > acc[2].x
                    /\ point.y > acc[2].y
                    /\ point.z > acc[2].z
                 THEN point ELSE acc[2]
         IN  rearrange_scan_strict(pts, i + 1, <<closest_to_origo, farthest_from_origo>>)

\* The loop of rearrange over corner_points[1..]: acc = <<closest, farthest>>.
RECURSIVE rearrange_scan(_, _, _)
rearrange_scan(pts, i, acc) ==
    IF i > Len(pts) THEN acc
    ELSE LET point == pts[i]
             closest_to_origo ==
                 IF /\ point.x <= acc[1].x
                    /\ point.y <= acc[1].y
                    /\ point.z <= acc[1].z
                 THEN point ELSE acc[1]
             farthest_from_origo ==
                 IF /\ point.x >= acc[2].x
                    /\ point.y >= acc[2].y
                    /\ point.z >= acc[2].z
                 THEN point ELSE acc[2]
         IN  rearrange_scan(pts, i + 1, <<closest_to_origo, farthest_from_origo>>)

\* Cuboid::rearrange, as the value of *self after the call
rearrange(c) ==
    LET pts == corner_points(c)
        acc == rearrange_scan(pts, 2, <<pts[1], pts[1]>>)
    IN  IF c.corner = acc[1]
        THEN c
        ELSE from_corner_points(acc[1], acc[2], c.color)

(***************************************************************************)
(* Inputs of the cuboid operations.                                        *)
(***************************************************************************)
Box(lo, hi) == {Vector3(x, y, z) : x \in lo..hi, y \in lo..hi, z \in lo..hi}

\* the "backwards" box of the specification's example
BackwardsBox == Cuboid_new(Vector3(5, 5, 5), Vector3(-2, -2, -2), WHITE)

RearrangeInputs ==
    {Cuboid_new(c, e, col) : c \in Box(-MaxCorner, MaxCorner),
                             e \in Box(-MaxExtent, MaxExtent),
                             col \in Colors}
    \cup {BackwardsBox}

MergeCorners == {v \in Box(0, MaxCornerSum) : v.x + v.y + v.z <= MaxCornerSum}
MergeExtents ==
    {v \in Box(-MaxExtentSum, MaxExtentSum) :
        Abs(v.x) + Abs(v.y) + Abs(v.z) <= MaxExtentSum}

\* values of the variables a specification does not use
NoCuboid == Cuboid_new(Vector3(0, 0, 0), Vector3(0, 0, 0), WHITE)
NoRay == <<>>
NoPlane == <<>>

(***************************************************************************)
(* Specification of a single cuboid: corner_points and rearrange.          *)
(***************************************************************************)
InitCuboid ==
    /\ cuboid \in RearrangeInputs
    /\ hist = <<cuboid>>
    /\ points = NotCalled
    /\ self = NoCuboid
    /\ other = NoCuboid
    /\ contained = NotCalled
    /\ ray = NoRay
    /\ plane = NoPlane
    /\ hit = NotCalled

CornerPoints ==
    /\ points' = Returned(corner_points(cuboid))
    /\ UNCHANGED <<cuboid, hist, self, other, contained, ray, plane, hit>>

Rearrange ==
    /\ Len(hist) <= MaxCalls
    /\ cuboid' = rearrange(cuboid)
    /\ hist' = Append(hist, cuboid')
    /\ points' = NotCalled
    /\ UNCHANGED <<self, other, contained, ray, plane, hit>>

NextCuboid == CornerPoints \/ Rearrange

SpecCuboid == InitCuboid /\ [][NextCuboid]_vars

(***************************************************************************)
(* Specification of two cuboids: containing_cube.                          *)
(***************************************************************************)
\* Only the relative position of the two cuboids and the position of the
\* receiver relative to unit_x matter to containing_cube, and it never reads
\* the argument's color: the argument sits at the origin with one color, the
\* receiver takes any corner and color.
MergeSelves ==
    {Cuboid_new(c, e, col) : c \in MergeCorners, e \in MergeExtents, col \in Colors}
MergeOthers ==
    {Cuboid_new(Vector3(0, 0, 0), e, RED) : e \in MergeExtents}

InitMerge ==
    /\ self \in MergeSelves
    /\ other \in MergeOthers
    /\ contained = NotCalled
    /\ cuboid = NoCuboid
    /\ hist = <<>>
    /\ points = NotCalled
    /\ ray = NoRay
    /\ plane = NoPlane
    /\ hit = NotCalled

\* self.containing_cube(&other)
ContainingCube ==
    /\ contained' = Returned(containing_cube(self, other))
    /\ UNCHANGED <<cuboid, hist, points, self, other, ray, plane, hit>>

NextMerge == ContainingCube

SpecMerge == InitMerge /\ [][NextMerge]_vars

(***************************************************************************)
(* Exact rationals <<n, d>>, d > 0, gcd(n, d) = 1.                         *)
(***************************************************************************)
RECURSIVE GCD(_, _)
GCD(m, n) == IF n = 0 THEN m ELSE GCD(n, m % n)

Rat(n, d) ==
    LET g == GCD(Abs(n), Abs(d))
        s == IF d < 0 THEN -1 ELSE 1
    IN  <<(s * n) \div g, (s * d) \div g>>

RAdd(a, b) ==
    LET g == GCD(a[2], b[2])
    IN  Rat(a[1] * (b[2] \div g) + b[1] * (a[2] \div g), (a[2] \div g) * b[2])
RNeg(a) == <<-a[1], a[2]>>
RSub(a, b) == RAdd(a, RNeg(b))
RMul(a, b) ==
    LET g1 == GCD(Abs(a[1]), b[2])
        g2 == GCD(Abs(b[1]), a[2])
    IN  Rat((a[1] \div g1) * (b[1] \div g2), (a[2] \div g2) * (b[2] \div g1))
RDiv(a, b) == RMul(a, IF b[1] < 0 THEN <<-b[2], -b[1]>> ELSE <<b[2], b[1]>>)
RAbs(a) == <<Abs(a[1]), a[2]>>
\* a < b, comparing the integer parts first and then the fractional parts
RLt(a, b) ==
    LET fa == a[1] \div a[2]
        fb == b[1] \div b[2]
    IN  IF fa # fb THEN fa < fb
        ELSE (a[1] % a[2]) * b[2] < (b[1] % b[2]) * a[2]
RGt(a, b) == RLt(b, a)
RGe(a, b) == ~RLt(a, b)

Zero == <<0, 1>>
Half == <<1, 2>>

\* Vector3<f32> over the rationals, with cgmath's dot, - and * scalar
RVec(x, y, z) == [x |-> x, y |-> y, z |-> z]
RVSub(u, v) == RVec(RSub(u.x, v.x), RSub(u.y, v.y), RSub(u.z, v.z))
RVAdd(u, v) == RVec(RAdd(u.x, v.x), RAdd(u.y, v.y), RAdd(u.z, v.z))
RVScale(u, t) == RVec(RMul(u.x, t), RMul(u.y, t), RMul(u.z, t))
RDot(u, v) == RAdd(RAdd(RMul(u.x, v.x), RMul(u.y, v.y)), RMul(u.z, v.z))
IVec(x, y, z) == RVec(<<x, 1>>, <<y, 1>>, <<z, 1>>)

EPSYLON == <<1, 1000000>>

XY_PLANE ==
    [point |-> RVec(Half, Half, Zero), normal |-> IVec(0, 0, 1),
     left |-> IVec(1, 0, 0), down |-> IVec(0, -1, 0)]
YZ_PLANE ==
    [point |-> RVec(Zero, Half, Half), normal |-> IVec(1, 0, 0),
     left |-> IVec(0, 0, -1), down |-> IVec(0, -1, 0)]
XZ_PLANE ==
    [point |-> RVec(Half, Zero, Half), normal |-> IVec(0, 1, 0),
     left |-> IVec(0, 0, -1), down |-> IVec(1, 0, 0)]

\* Ray::new
Ray_new(point, vector) == [point |-> point, vector |-> vector]

\* plane_intersection accepting a negative dist_square2 (|t| >= EPSYLON)
plane_intersection_any_side(r, p) ==
    LET dist_square == RDot(r.vector, p.normal)
    IN  IF RGt(RAbs(dist_square), EPSYLON)
        THEN LET diff == RVSub(r.point, p.point)
                 dist_square2 == RDiv(RDot(diff, p.normal), dist_square)
             IN  IF RGe(RAbs(dist_square2), EPSYLON)
                 THEN Some(RVSub(r.point, RVScale(r.vector, dist_square2)))
                 ELSE None
        ELSE None

\* plane_intersection with dist_square2 > EPSYLON in place of >=
plane_intersection_strict(r, p) ==
    LET dist_square == RDot(r.vector, p.normal)
    IN  IF RGt(RAbs(dist_square), EPSYLON)
        THEN LET diff == RVSub(r.point, p.point)
                 dist_square2 == RDiv(RDot(diff, p.normal), dist_square)
             IN  IF RGt(dist_square2, EPSYLON)
                 THEN Some(RVSub(r.point, RVScale(r.vector, dist_square2)))
                 ELSE None
        ELSE None

\* plane_intersection answering the origin for a ray that lies in the plane
plane_intersection_in_plane(r, p) ==
    LET dist_square == RDot(r.vector, p.normal)
        diff == RVSub(r.point, p.point)
    IN  IF RGt(RAbs(dist_square), EPSYLON)
        THEN LET dist_square2 == RDiv(RDot(diff, p.normal), dist_square)
             IN  IF RGe(dist_square2, EPSYLON)
                 THEN Some(RVSub(r.point, RVScale(r.vector, dist_square2)))
                 ELSE None
        ELSE IF RDot(diff, p.normal) = Zero THEN Some(r.point) ELSE None

\* plane_intersection with the usual point + vector * t
plane_intersection_along(r, p) ==
    LET dist_square == RDot(r.vector, p.normal)
    IN  IF RGt(RAbs(dist_square), EPSYLON)
        THEN LET diff == RVSub(r.point, p.point)
                 dist_square2 == RDiv(RDot(diff, p.normal), dist_square)
             IN  IF RGe(dist_square2, EPSYLON)
                 THEN Some(RVAdd(r.point, RVScale(r.vector, dist_square2)))
                 ELSE None
        ELSE None

\* Ray::plane_intersection
plane_intersection(r, p) ==
    LET dist_square == RDot(r.vector, p.normal)
    IN  IF RGt(RAbs(dist_square), EPSYLON)
        THEN LET diff == RVSub(r.point, p.point)
                 dist_square2 == RDiv(RDot(diff, p.normal), dist_square)
             IN  IF RGe(dist_square2, EPSYLON)
                 THEN Some(RVSub(r.point, RVScale(r.vector, dist_square2)))
                 ELSE None
        ELSE None

(***************************************************************************)
(* Inputs of plane_intersection.                                           *)
(***************************************************************************)
MaxHalf == 2    \* grid origins have components k/2, k in -MaxHalf..MaxHalf
MaxDir == 1     \* grid directions have components in -MaxDir..MaxDir

\* a caller-supplied plane through the origin with the unit normal (3/5, 4/5, 0)
TILTED_PLANE ==
    [point |-> IVec(0, 0, 0), normal |-> RVec(<<3, 5>>, <<4, 5>>, Zero),
     left |-> RVec(<<4, 5>>, <<-3, 5>>, Zero), down |-> IVec(0, 0, -1)]

Planes == {XY_PLANE, YZ_PLANE, XZ_PLANE, TILTED_PLANE}

GridRays ==
    {Ray_new(RVec(Rat(px, 2), Rat(py, 2), Rat(pz, 2)), IVec(vx, vy, vz)) :
        px \in -MaxHalf..MaxHalf, py \in -MaxHalf..MaxHalf, pz \in -MaxHalf..MaxHalf,
        vx \in -MaxDir..MaxDir, vy \in -MaxDir..MaxDir, vz \in -MaxDir..MaxDir}

\* rays along z through (1/2, 1/2): the specification's examples (z = 5 and
\* z = -5) and origins and directions at, just below and just above EPSYLON
NearZ == {<<-5, 1>>, <<-1, 500000>>, <<-1, 1000000>>, <<-1, 2000000>>,
          <<1, 2000000>>, <<1, 1000000>>, <<1, 500000>>, <<5, 1>>}
NearDir == {<<-1, 1>>, <<-1, 500000>>, <<-1, 1000000>>, <<1, 2000000>>,
            <<1, 1000000>>, <<1, 500000>>, <<1, 1>>}
AxisRays == {Ray_new(RVec(Half, Half, z), RVec(Zero, Zero, d)) : z \in NearZ, d \in NearDir}

\* rays whose direction lies in TILTED_PLANE
TiltedRays ==
    {Ray_new(RVec(Rat(px, 2), Rat(py, 2), Zero), RVec(<<4 * k, 5>>, <<-3 * k, 5>>, Zero)) :
        px \in -MaxHalf..MaxHalf, py \in -MaxHalf..MaxHalf, k \in {-1, 1}}

Rays == GridRays \cup AxisRays \cup TiltedRays

(***************************************************************************)
(* Specification of a ray and a plane: plane_intersection.                 *)
(***************************************************************************)
InitRay ==
    /\ ray \in Rays
    /\ plane \in Planes
    /\ hit = NotCalled
    /\ cuboid = NoCuboid
    /\ hist = <<>>
    /\ points = NotCalled
    /\ self = NoCuboid
    /\ other = NoCuboid
    /\ contained = NotCalled

\* ray.plane_intersection(&plane)
PlaneIntersection ==
    /\ hit' = Returned(plane_intersection(ray, plane))
    /\ UNCHANGED <<cuboid, hist, points, self, other, contained, ray, plane>>

NextRay == PlaneIntersection

SpecRay == InitRay /\ [][NextRay]_vars

(***************************************************************************)
(* Properties of corner_points and rearrange, checked under SpecCuboid.    *)
(***************************************************************************)
LeqAll(u, v) == u.x <= v.x /\ u.y <= v.y /\ u.z <= v.z

\* C1: after one call to rearrange on a cuboid built with Cuboid::new, the
\* corner is component-wise <= each of the 8 corner points, every extent
\* component is >= 0, on each axis the new corner is min(corner, corner +
\* extent) and the new extent is |extent|, and the color is unchanged; the
\* backwards box (5,5,5)/(-2,-2,-2) becomes (3,3,3)/(2,2,2).
C1_RearrangeNormalises ==
    Len(hist) >= 2 =>
        LET o == hist[1]
            n == hist[2]
        IN  /\ n.corner = Vector3(Min(o.corner.x, o.corner.x + o.extent.x),
                                  Min(o.corner.y, o.corner.y + o.extent.y),
                                  Min(o.corner.z, o.corner.z + o.extent.z))
            /\ n.extent = Vector3(Abs(o.extent.x), Abs(o.extent.y), Abs(o.extent.z))
            /\ n.color = o.color
            /\ \A i \in 1..8 : LeqAll(n.corner, corner_points(n)[i])
            /\ n.extent.x >= 0 /\ n.extent.y >= 0 /\ n.extent.z >= 0
            /\ (o = BackwardsBox =>
                    n = Cuboid_new(Vector3(3, 3, 3), Vector3(2, 2, 2), WHITE))

\* the backwards box has been rearranged once
C1_Witness ==
    /\ Len(hist) = 2
    /\ hist[1] = BackwardsBox
    /\ hist[2] = Cuboid_new(Vector3(3, 3, 3), Vector3(2, 2, 2), WHITE)

\* C6: rearrange is idempotent: the cuboid after two calls equals the cuboid
\* after one call (corner, extent and color), and a cuboid whose corner is
\* already its minimum corner is left unchanged by rearrange.
C6_RearrangeIdempotent ==
    /\ Len(hist) >= 3 => hist[3] = hist[2]
    /\ (Len(hist) >= 2 /\ \A i \in 1..8 : LeqAll(hist[1].corner, corner_points(hist[1])[i]))
            => hist[2] = hist[1]

\* a cuboid with a negative and a zero extent component was changed by the
\* first call and has been rearranged a second time
C6_Witness ==
    /\ Len(hist) = 3
    /\ hist[1].extent.x < 0
    /\ hist[1].extent.y = 0
    /\ hist[2] # hist[1]
    /\ hist[3] = hist[2]

\* C8: corner_points returns, in this order, c, c+(ex,0,0), c+(ex,ey,0),
\* c+(0,ey,0), c+(0,0,ez), c+(ex,0,ez), c+(ex,ey,ez), c+(0,ey,ez); for corner
\* (0,0,0) and extent (1,1,1) that is (0,0,0),(1,0,0),(1,1,0),(0,1,0),(0,0,1),
\* (1,0,1),(1,1,1),(0,1,1).
C8_CornerPointsOrder ==
    points # NotCalled =>
        LET c == cuboid.corner
            e == cuboid.extent
        IN  /\ points[1] =
                 << c,
                    Vector3(c.x + e.x, c.y, c.z),
                    Vector3(c.x + e.x, c.y + e.y, c.z),
                    Vector3(c.x, c.y + e.y, c.z),
                    Vector3(c.x, c.y, c.z + e.z),
                    Vector3(c.x + e.x, c.y, c.z + e.z),
                    Vector3(c.x + e.x, c.y + e.y, c.z + e.z),
                    Vector3(c.x, c.y + e.y, c.z + e.z) >>
            /\ (c = Vector3(0, 0, 0) /\ e = Vector3(1, 1, 1)) =>
                 points[1] =
                     << Vector3(0, 0, 0), Vector3(1, 0, 0), Vector3(1, 1, 0),
                        Vector3(0, 1, 0), Vector3(0, 0, 1), Vector3(1, 0, 1),
                        Vector3(1, 1, 1), Vector3(0, 1, 1) >>

\* corner_points has been called on the unit cube at the origin
C8_Witness ==
    /\ points # NotCalled
    /\ cuboid.corner = Vector3(0, 0, 0)
    /\ cuboid.extent = Vector3(1, 1, 1)
    /\ Len(points[1]) = 8

(***************************************************************************)
(* Properties of containing_cube, checked under SpecMerge.                 *)
(***************************************************************************)
NormL1(v) == Abs(v.x) + Abs(v.y) + Abs(v.z)
AbsVec(v) == Vector3(Abs(v.x), Abs(v.y), Abs(v.z))

\* the pairs <<i, j>> of corner indices, the distance of the pair ij of the
\* corner lists xs and ys, and the largest distance of a pair
CornerPairs == (1..8) \X (1..8)
PairDist(xs, ys, ij) == NormL1(VSub(xs[ij[1]], ys[ij[2]]))
MaxPairDist(a, b) ==
    CHOOSE m \in UNION {{d \in ds : \A e \in ds : e <= d} :
                ds \in {{PairDist(xs, ys, ij) :
                            xs \in {corner_points(a)}, ys \in {corner_points(b)},
                            ij \in CornerPairs}}} : TRUE

Between(lo, m, hi) == (lo <= m /\ m <= hi) \/ (hi <= m /\ m <= lo)
Inside(r, p) ==
    /\ Between(r.corner.x, p.x, r.corner.x + r.extent.x)
    /\ Between(r.corner.y, p.y, r.corner.y + r.extent.y)
    /\ Between(r.corner.z, p.z, r.corner.z + r.extent.z)
NonNegative(v) == v.x >= 0 /\ v.y >= 0 /\ v.z >= 0

\* C2: when the extents of A and B are non-negative, R = A.containing_cube(B)
\* bounds both: each of the 8 corner points of A and of B lies, on every
\* axis, between R.corner and R.corner + R.extent.
C2_ContainsBoth ==
    (contained # NotCalled /\ NonNegative(self.extent) /\ NonNegative(other.extent)) =>
        \A i \in 1..8 :
            /\ Inside(contained[1], corner_points(self)[i])
            /\ Inside(contained[1], corner_points(other)[i])

\* C7: A.containing_cube(B) and B.containing_cube(A) are built from pairs of
\* the same, maximal, Manhattan distance and their extents have the same
\* magnitude on every axis.
C7_SymmetricExtent ==
    contained # NotCalled =>
        \A r \in {contained[1]}, s \in {containing_cube(other, self)} :
            /\ AbsVec(r.extent) = AbsVec(s.extent)
            /\ NormL1(r.extent) = MaxPairDist(self, other)
            /\ NormL1(s.extent) = MaxPairDist(other, self)

\* two different corner pairs tie for the maximum and the two calls pick
\* different ones
C7_Witness ==
    /\ contained # NotCalled
    /\ \E r \in {contained[1]}, s \in {containing_cube(other, self)} :
           /\ self.extent # other.extent
           /\ r.corner # VAdd(s.corner, s.extent)
           /\ NormL1(r.extent) > 0
           /\ NormL1(r.extent) = MaxPairDist(self, other)

\* C9: A.containing_cube(B) has as corner a corner point of A and as corner +
\* extent a corner point of B, namely the first pair in scan order (A's
\* corners outer, B's inner) whose Manhattan distance is the maximum over
\* all 64 pairs; its extent is the second point minus the first and its
\* color is A's color.
C9_FirstMaximalPair ==
    contained # NotCalled =>
        \A r \in {contained[1]}, xs \in {corner_points(self)},
           ys \in {corner_points(other)}, m \in {MaxPairDist(self, other)} :
            \E ij \in CornerPairs :
                /\ PairDist(xs, ys, ij) = m
                /\ \A kl \in CornerPairs :
                       PairDist(xs, ys, kl) = m =>
                           \/ ij[1] < kl[1]
                           \/ (ij[1] = kl[1] /\ ij[2] <= kl[2])
                /\ r.corner = xs[ij[1]]
                /\ VAdd(r.corner, r.extent) = ys[ij[2]]
                /\ r.extent = VSub(ys[ij[2]], xs[ij[1]])
                /\ r.color = self.color

(***************************************************************************)
(* Properties of plane_intersection, checked under SpecRay.                *)
(***************************************************************************)
ZeroVec == IVec(0, 0, 0)
Down == IVec(0, 0, -1)
Up == IVec(0, 0, 1)
\* the point below the origin of the ray on the plane z = 0
Foot == RVec(ray.point.x, ray.point.y, Zero)
ExampleAbove == RVec(Half, Half, <<5, 1>>)
ExampleBelow == RVec(Half, Half, <<-5, 1>>)
ExampleHit == RVec(Half, Half, Zero)

\* C3 as stated: for XY_PLANE, a ray with origin at z > 0 and direction
\* (0,0,-1) gets a hit, the origin's x and y at z = 0.
C3_Original ==
    (hit # NotCalled /\ plane = XY_PLANE /\ RGt(ray.point.z, Zero) /\ ray.vector = Down)
        => hit[1] = Some(Foot)

\* C3 amended: for XY_PLANE, a ray with origin at z > 0 and direction
\* (0,0,-1) gets None; the hit at the origin's x and y with z = 0 is what a
\* ray with origin at z >= EPSYLON and direction (0,0,1) gets, and the ray
\* from (0.5, 0.5, 5) with direction (0,0,1) gets Some((0.5, 0.5, 0)).
C3_HitAgainstDirection ==
    (hit # NotCalled /\ plane = XY_PLANE) =>
        /\ (RGt(ray.point.z, Zero) /\ ray.vector = Down) => hit[1] = None
        /\ (RGe(ray.point.z, EPSYLON) /\ ray.vector = Up) => hit[1] = Some(Foot)
        /\ (ray.point = ExampleAbove /\ ray.vector = Up) => hit[1] = Some(ExampleHit)

\* the ray from (0.5, 0.5, 5) with direction (0,0,-1) got None from XY_PLANE
C3_Witness ==
    /\ hit = Returned(None)
    /\ plane = XY_PLANE
    /\ ray.point = ExampleAbove
    /\ ray.vector = Down

\* C4 as stated: for XY_PLANE, a ray with origin at z < 0 and direction
\* (0,0,-1) gets None.
C4_Original ==
    (hit # NotCalled /\ plane = XY_PLANE /\ RLt(ray.point.z, Zero) /\ ray.vector = Down)
        => hit[1] = None

\* C4 amended: for XY_PLANE, a ray with origin at z <= -EPSYLON and direction
\* (0,0,-1) gets the hit at the origin's x and y with z = 0, the ray from
\* (0.5, 0.5, -5) with direction (0,0,-1) gets Some((0.5, 0.5, 0)), and None
\* is what a ray with origin at -EPSYLON < z < 0 and direction (0,0,-1), or
\* with origin at z < 0 and direction (0,0,1), gets.
C4_HitFromBelow ==
    (hit # NotCalled /\ plane = XY_PLANE) =>
        /\ (RGe(RNeg(ray.point.z), EPSYLON) /\ ray.vector = Down) => hit[1] = Some(Foot)
        /\ (ray.point = ExampleBelow /\ ray.vector = Down) => hit[1] = Some(ExampleHit)
        /\ (RLt(ray.point.z, Zero) /\ RLt(RNeg(ray.point.z), EPSYLON) /\ ray.vector = Down)
               => hit[1] = None
        /\ (RLt(ray.point.z, Zero) /\ ray.vector = Up) => hit[1] = None

\* the ray from (0.5, 0.5, -5) with direction (0,0,-1) hit XY_PLANE
C4_Witness ==
    /\ hit = Returned(Some(ExampleHit))
    /\ plane = XY_PLANE
    /\ ray.point = ExampleBelow
    /\ ray.vector = Down

\* C5: a ray whose direction has zero dot product with the plane's normal
\* gets None from plane_intersection, whatever its origin.
C5_ParallelNoHit ==
    (hit # NotCalled /\ RDot(ray.vector, plane.normal) = Zero) => hit[1] = None

\* a ray with its origin on the tilted plane and a non-zero direction lying
\* in that plane got None
C5_Witness ==
    /\ hit = Returned(None)
    /\ plane = TILTED_PLANE
    /\ ray.vector # ZeroVec
    /\ RDot(ray.vector, plane.normal) = Zero
    /\ RDot(RVSub(ray.point, plane.point), plane.normal) = Zero

\* the only t with back = v * t, when there is one
StepsBack(back, v) ==
    IF v.x # Zero THEN RDiv(back.x, v.x)
    ELSE IF v.y # Zero THEN RDiv(back.y, v.y)
    ELSE IF v.z # Zero THEN RDiv(back.z, v.z)
    ELSE Zero

\* C10: a hit p lies on the plane, dot(p - plane.point, plane.normal) = 0,
\* and is reached against the direction: ray.point - p is a positive
\* multiple of ray.vector.
C10_HitOnPlaneAgainstDirection ==
    (hit # NotCalled /\ hit # Returned(None)) =>
        \A p \in {hit[1][2]}, back \in {RVSub(ray.point, hit[1][2])} :
            /\ RDot(RVSub(p, plane.point), plane.normal) = Zero
            /\ \E t \in {StepsBack(back, ray.vector)} :
                   /\ RGt(t, Zero)
                   /\ RVScale(ray.vector, t) = back

\* a ray oblique to the tilted plane hit it
C10_Witness ==
    /\ hit # NotCalled
    /\ hit # Returned(None)
    /\ plane = TILTED_PLANE
    /\ ray.vector.x # Zero /\ ray.vector.y # Zero /\ ray.vector.z # Zero

====
